---- MODULE Spec2Model ----
(***************************************************************************)
(* Gesture state machine and particle pool of sketch.js.                   *)
(*                                                                         *)
(* Numbers are fixed point, so that the JavaScript doubles become          *)
(* integers:                                                               *)
(*   normalized landmark coordinate   1.0      = NORM units                *)
(*   canvas position                  1 pixel  = SUB units                 *)
(*   particle velocity                1 px/frame = VEL units               *)
(*   motionIntensity                  1.0      = INT units                 *)
(*   motionDX, motionDY               1.0      = DIR units                 *)
(* Distances are compared through their squares; a quotient is truncated   *)
(* toward zero (TruncDiv) and a square root is the floor (ISqrt).          *)
(*                                                                         *)
(* The pool `particles` has the program's length (MAX_PARTICLES plus       *)
(* spawnCount per burst).  Position and velocity are followed for the      *)
(* particles marked trk; the other entries keep only their origin.  Every  *)
(* particle runs the same update with its own random draws and no particle *)
(* reads another, so what holds of a followed particle under every draw    *)
(* holds of each particle of the pool.  alpha, hue and the sizes are       *)
(* display values that nothing reads back; they are not part of the state. *)
(***************************************************************************)
EXTENDS Integers, Sequences, FiniteSets, TLC

VARIABLES
    multiHandLandmarks,   \* last delivered observation: sequence of hands
    indexFingerTip,       \* Null or the first hand's landmark 8 on the canvas
    currentMode,          \* "none" | "repel" | "attract" | "explosion"
    explosionTriggered,   \* latch of updateMode
    explosionMidpoint,    \* Null or canvas point
    explosionTimer,       \* frames left of the explosion force
    gestureRecoveryTimer, \* frames left of the recovery force
    previousMode,         \* currentMode as the last draw frame saw it
    motionIntensity, motionDX, motionDY,
    prevFingerPos,        \* Null or the fingertip of the last frame with a hand
    particles,            \* the pool
    handsReady,           \* set once hands.initialize() has completed
    tracker,              \* where initializeHandTracking stands
    lastSend,             \* history: how the last hands.send ended
    sinceTrigger,         \* history: draw frames since the last explosion trigger, -1 if none
    burstsPending,        \* history: explosion triggers since the last cleanup in mode none
    modeDropped,          \* history: a callback since the last draw frame took the mode from non-none to none
    runBursts,            \* history: bursts since the last callback without the two-hand condition
    sinceArm,             \* history: draw frames in mode none since the recovery timer was armed, -1 if none
    frames                \* history: draw frames so far, counted up to MaxFrames

vars == <<multiHandLandmarks, indexFingerTip, currentMode, explosionTriggered,
          explosionMidpoint, explosionTimer, gestureRecoveryTimer, previousMode,
          motionIntensity, motionDX, motionDY, prevFingerPos, particles,
          handsReady, tracker, lastSend, sinceTrigger, burstsPending, modeDropped,
          runBursts, sinceArm, frames>>

\* ---------------------------------------------------------------- scales

NORM == 4800
SUB == 10
VEL == 100
INT == 10
DIR == 100

\* ------------------------------------------------------ program constants

MAX_PARTICLES == 100
EXPLOSION_DURATION == 60
RECOVERY_DURATION == 120
width == 640
height == 480
spawnCount == 40
respawnCount == 2
maxNumHands == 2

W == width * SUB
H == height * SUB

\* ------------------------------------------------------------ model bounds

\* Bursts that may sit in the pool above MAX_PARTICLES before a callback
\* that would add another one is no longer delivered.
MaxPendingBursts == 2
\* Draw frames of a run, in the specifications that bound them.
MaxFrames == 4
\* Draw frames of a run in which particles are followed.
MaxParticleFrames == 2

\* ------------------------------------------------------------- arithmetic

Abs(a) == IF a < 0 THEN -a ELSE a

Min(a, b) == IF a < b THEN a ELSE b

\* JavaScript's division of doubles, truncated toward zero.
TruncDiv(a, b) == IF a >= 0 THEN a \div b ELSE -((-a) \div b)

RECURSIVE SqrtBetween(_, _, _)
SqrtBetween(n, lo, hi) ==
    IF lo >= hi THEN lo
    ELSE LET mid == (lo + hi + 1) \div 2
         IN  IF mid * mid <= n THEN SqrtBetween(n, mid, hi)
             ELSE SqrtBetween(n, lo, mid - 1)

\* floor of the square root, for 0 <= n < 2^31
ISqrt(n) == SqrtBetween(n, 0, 46340)

\* p5's constrain(v, lo, hi)
constrain(v, lo, hi) == IF v < lo THEN lo ELSE IF v > hi THEN hi ELSE v

Null == [some |-> FALSE, x |-> 0, y |-> 0]

Pt(px, py) == [some |-> TRUE, x |-> px, y |-> py]

\* --------------------------------------------------------- gesture tests

\* The landmarks the program reads: wrist, thumb tip, index tip, middle
\* finger MCP, middle, ring and pinky tips.
LandmarkIdx == {0, 4, 8, 9, 12, 16, 20}

fingertipIndices == {4, 8, 12, 16, 20}

\* Thresholds 0.15 and 0.12 of the normalized distance.
openPalmThreshold == (15 * NORM) \div 100
fistThreshold == (12 * NORM) \div 100
twoHandsThreshold == (15 * NORM) \div 100

\* Square of twice the distance from fingertip i to the palm centre
\* ((landmarks[0] + landmarks[9]) / 2): twice, so that the centre needs no
\* half unit.
PalmDist2Sq(landmarks, i) ==
    LET dx2 == 2 * landmarks[i].x - (landmarks[0].x + landmarks[9].x)
        dy2 == 2 * landmarks[i].y - (landmarks[0].y + landmarks[9].y)
    IN  dx2 * dx2 + dy2 * dy2

\* Mutant: dist <= threshold.
FingerNotExtendedStrict(landmarks, i) ==
    PalmDist2Sq(landmarks, i) <= (2 * openPalmThreshold) * (2 * openPalmThreshold)

\* dist < threshold, on the doubled distance
FingerNotExtended(landmarks, i) ==
    PalmDist2Sq(landmarks, i) < (2 * openPalmThreshold) * (2 * openPalmThreshold)

\* dist > threshold, on the doubled distance
FingerNotCurled(landmarks, i) ==
    PalmDist2Sq(landmarks, i) > (2 * fistThreshold) * (2 * fistThreshold)

\* The value detectOpenPalm returns when it returns: true when the loop has
\* read all five fingertips and found each extended.
detectOpenPalm(landmarks) ==
    \A i \in fingertipIndices : i \in DOMAIN landmarks /\ ~FingerNotExtended(landmarks, i)

detectFist(landmarks) ==
    \A i \in fingertipIndices : i \in DOMAIN landmarks /\ ~FingerNotCurled(landmarks, i)

\* landmarks[i].x of an absent landmark is a TypeError: the palm centre
\* reads landmarks 0 and 9, then the loop reads the fingertips in order
\* until one makes it return.
detectOpenPalmThrows(landmarks) ==
    \/ 0 \notin DOMAIN landmarks
    \/ 9 \notin DOMAIN landmarks
    \/ \E i \in fingertipIndices :
          /\ i \notin DOMAIN landmarks
          /\ \A j \in fingertipIndices :
                j < i => (j \in DOMAIN landmarks /\ ~FingerNotExtended(landmarks, j))

detectFistThrows(landmarks) ==
    \/ 0 \notin DOMAIN landmarks
    \/ 9 \notin DOMAIN landmarks
    \/ \E i \in fingertipIndices :
          /\ i \notin DOMAIN landmarks
          /\ \A j \in fingertipIndices :
                j < i => (j \in DOMAIN landmarks /\ ~FingerNotCurled(landmarks, j))

WristDistSq(mhl) ==
    LET dx == mhl[1][0].x - mhl[2][0].x
        dy == mhl[1][0].y - mhl[2][0].y
    IN  dx * dx + dy * dy

\* multiHandLandmarks[h][0].x of a hand without a wrist is a TypeError.
detectTwoHandsThrows(mhl) ==
    Len(mhl) = 2 /\ (0 \notin DOMAIN mhl[1] \/ 0 \notin DOMAIN mhl[2])

\* Mutant: dist >= 0.15.
detectTwoHandsInclusive(mhl) ==
    IF Len(mhl) # 2 THEN FALSE
    ELSE WristDistSq(mhl) >= twoHandsThreshold * twoHandsThreshold

detectTwoHands(mhl) ==
    IF Len(mhl) # 2 THEN FALSE
    ELSE WristDistSq(mhl) > twoHandsThreshold * twoHandsThreshold

\* ------------------------------------------------------------- particles

\* A pool entry whose position and velocity are not followed.
Untracked(org, idx) == [origin |-> org, k |-> idx, trk |-> FALSE]

\* new Particle() of setup: reset() draws s.x in [0, width), s.y in
\* [0, height), s.vx, s.vy in [-1, 1) and s.baseSpeed in [0.5, 2), kept in
\* halves.
Particle(idx, s) ==
    IF s.trk
    THEN [origin |-> "setup", k |-> idx, trk |-> TRUE, age |-> 0,
          x |-> s.x, y |-> s.y, vx |-> s.vx, vy |-> s.vy, baseSpeed |-> s.baseSpeed]
    ELSE Untracked("setup", idx)

\* The particle a burst spawns: midpoint + random(-5, 5) on each axis,
\* velocity cos(angle) * speed, sin(angle) * speed with speed in [3, 7).
\* The first particle of the first burst above MAX_PARTICLES is followed.
BurstParticle(pool, idx, mid, b) ==
    IF b.trk /\ idx = 1 /\ Len(pool) = MAX_PARTICLES
    THEN [origin |-> "burst", k |-> idx, trk |-> TRUE, age |-> 0,
          x |-> mid.x + b.ox, y |-> mid.y + b.oy,
          vx |-> b.vx, vy |-> b.vy, baseSpeed |-> b.baseSpeed]
    ELSE Untracked("burst", idx)

Tracked(pool) == {i \in 1..Len(pool) : pool[i].trk}

\* ------------------------------------------------------ tracking callback

\* Mirrored canvas midpoint of the two wrists.
MidX(mhl) == W - ((mhl[1][0].x + mhl[2][0].x) * W) \div (2 * NORM)

MidY(mhl) == ((mhl[1][0].y + mhl[2][0].y) * H) \div (2 * NORM)

SpawnBurst(pool, mid, b) ==
    pool \o [i \in 1..spawnCount |-> BurstParticle(pool, i, mid, b)]

triggerExplosion(mhl, b) ==
    IF Len(mhl) < 2
    THEN UNCHANGED <<explosionMidpoint, explosionTimer, particles>>
    ELSE /\ explosionMidpoint' = Pt(MidX(mhl), MidY(mhl))
         /\ explosionTimer' = EXPLOSION_DURATION
         /\ particles' = SpawnBurst(particles, Pt(MidX(mhl), MidY(mhl)), b)

\* The one-hand branch of updateMode.
ClassifyHand(landmarks) ==
    IF detectOpenPalm(landmarks) THEN "repel"
    ELSE IF detectFist(landmarks) THEN "attract"
    ELSE "none"

\* Mutant: the latch is not consulted.
ShouldTriggerAlways(latch) == TRUE

\* Whether updateMode calls triggerExplosion, given the latch.
ShouldTrigger(latch) == ~latch

\* Mutant: an ambiguous hand shape leaves the mode as it was.
updateModeKeeps(mhl, b) ==
    IF detectTwoHands(mhl)
    THEN /\ currentMode' = "explosion"
         /\ IF ShouldTrigger(explosionTriggered)
            THEN triggerExplosion(mhl, b)
            ELSE UNCHANGED <<explosionMidpoint, explosionTimer, particles>>
         /\ explosionTriggered' = TRUE
    ELSE /\ explosionTriggered' = FALSE
         /\ currentMode' = IF Len(mhl) = 1 /\ ClassifyHand(mhl[1]) # "none"
                           THEN ClassifyHand(mhl[1])
                           ELSE IF Len(mhl) = 1 THEN currentMode ELSE "none"
         /\ UNCHANGED <<explosionMidpoint, explosionTimer, particles>>

updateMode(mhl, b) ==
    IF detectTwoHands(mhl)
    THEN /\ currentMode' = "explosion"
         /\ IF ShouldTrigger(explosionTriggered)
            THEN triggerExplosion(mhl, b)
            ELSE UNCHANGED <<explosionMidpoint, explosionTimer, particles>>
         /\ explosionTriggered' = TRUE
    ELSE /\ explosionTriggered' = FALSE
         /\ currentMode' = IF Len(mhl) = 1 THEN ClassifyHand(mhl[1]) ELSE "none"
         /\ UNCHANGED <<explosionMidpoint, explosionTimer, particles>>

\* updateMode ends in a TypeError: in detectTwoHands, or, with one hand, in
\* detectOpenPalm or in the detectFist that follows its false.
updateModeThrows(mhl) ==
    \/ detectTwoHandsThrows(mhl)
    \/ /\ Len(mhl) = 1
       /\ \/ detectOpenPalmThrows(mhl[1])
          \/ ~detectOpenPalm(mhl[1]) /\ detectFistThrows(mhl[1])

\* The callback ends in a TypeError: at handLandmarks[8].x or in updateMode.
Raises(obs) ==
    \/ Len(obs) > 0 /\ 8 \notin DOMAIN obs[1]
    \/ updateModeThrows(obs)

\* The two-hand condition of an observation, as the run of callbacks that
\* runBursts counts over is defined: exactly two hands, wrists more than
\* 0.15 apart.
TwoHandCondition(obs) ==
    /\ Len(obs) = 2
    /\ (obs[1][0].x - obs[2][0].x) * (obs[1][0].x - obs[2][0].x)
         + (obs[1][0].y - obs[2][0].y) * (obs[1][0].y - obs[2][0].y)
       > ((15 * NORM) \div 100) * ((15 * NORM) \div 100)

FingerTipOf(obs) ==
    IF Len(obs) > 0
    THEN Pt((obs[1][8].x * W) \div NORM, (obs[1][8].y * H) \div NORM)
    ELSE Null

\* The callback, with the state it leaves behind when a statement of it
\* throws: the assignments made before the throw stay.
onHandsDetected(obs, b) ==
    /\ multiHandLandmarks' = obs
    /\ IF Len(obs) > 0 /\ 8 \notin DOMAIN obs[1]
       THEN \* line 118 throws: indexFingerTip = null of line 105 stays
            /\ indexFingerTip' = Null
            /\ UNCHANGED <<currentMode, explosionTriggered, explosionMidpoint,
                           explosionTimer, particles>>
       ELSE IF updateModeThrows(obs)
       THEN \* detectTwoHands throws before any assignment; the one-hand
            \* tests throw after line 209 has cleared the latch
            /\ indexFingerTip' = FingerTipOf(obs)
            /\ explosionTriggered' = IF detectTwoHandsThrows(obs)
                                     THEN explosionTriggered ELSE FALSE
            /\ UNCHANGED <<currentMode, explosionMidpoint, explosionTimer, particles>>
       ELSE /\ indexFingerTip' = FingerTipOf(obs)
            /\ updateMode(obs, b)
    /\ Len(particles') <= MAX_PARTICLES + MaxPendingBursts * spawnCount
    /\ runBursts' = IF Raises(obs)
                    THEN (IF explosionTriggered' THEN runBursts ELSE 0)
                    ELSE (IF TwoHandCondition(obs) THEN runBursts ELSE 0)
                         + (IF Len(particles') > Len(particles) THEN 1 ELSE 0)
    /\ burstsPending' = burstsPending
                         + (IF ~explosionTriggered /\ explosionTriggered' THEN 1 ELSE 0)
    /\ sinceTrigger' = IF ~explosionTriggered /\ explosionTriggered' THEN 0 ELSE sinceTrigger
    /\ modeDropped' = (modeDropped \/ (currentMode # "none" /\ currentMode' = "none"))
    /\ UNCHANGED <<gestureRecoveryTimer, previousMode, motionIntensity,
                   motionDX, motionDY, prevFingerPos, sinceArm, frames>>

\* Mutant: frames are sent whatever the tracker's state.
CanSendAlways(ready, st) == TRUE

\* processHandTracking runs once initializeHandTracking has reached line 99
\* and sends a frame when handsReady (line 270).
CanSend(ready, st) == ready /\ st = "running"

\* One round of processHandTracking whose hands.send delivers the results
\* obs to the callback.
processHandTracking(obs, b) ==
    /\ CanSend(handsReady, tracker)
    /\ onHandsDetected(obs, b)
    /\ lastSend' = IF Raises(obs) THEN "raised" ELSE "delivered"
    /\ UNCHANGED <<handsReady, tracker>>

\* One round of processHandTracking whose hands.send fails before any
\* result: the catch of line 273 logs the error.
sendFails ==
    /\ CanSend(handsReady, tracker)
    /\ lastSend' = "failed"
    /\ UNCHANGED <<multiHandLandmarks, indexFingerTip, currentMode, explosionTriggered,
                   explosionMidpoint, explosionTimer, gestureRecoveryTimer, previousMode,
                   motionIntensity, motionDX, motionDY, prevFingerPos, particles,
                   handsReady, tracker, sinceTrigger, burstsPending, modeDropped,
                   runBursts, sinceArm, frames>>

\* ------------------------------------------------- initializeHandTracking

\* typeof Hands === 'undefined': the function returns, no tracker exists.
handsUndefined ==
    /\ tracker = "setup"
    /\ tracker' = "absent"
    /\ UNCHANGED <<multiHandLandmarks, indexFingerTip, currentMode, explosionTriggered,
                   explosionMidpoint, explosionTimer, gestureRecoveryTimer, previousMode,
                   motionIntensity, motionDX, motionDY, prevFingerPos, particles,
                   handsReady, lastSend, sinceTrigger, burstsPending, modeDropped,
                   runBursts, sinceArm, frames>>

\* Lines 72-87: the tracker is created, the callback registered, and the
\* function awaits hands.initialize().
initializeStarts ==
    /\ tracker = "setup"
    /\ tracker' = "initializing"
    /\ UNCHANGED <<multiHandLandmarks, indexFingerTip, currentMode, explosionTriggered,
                   explosionMidpoint, explosionTimer, gestureRecoveryTimer, previousMode,
                   motionIntensity, motionDX, motionDY, prevFingerPos, particles,
                   handsReady, lastSend, sinceTrigger, burstsPending, modeDropped,
                   runBursts, sinceArm, frames>>

\* hands.initialize() resolves: handsReady = true, then the warm-up send is
\* awaited.  An initialize() that never resolves is this action never taken.
initializeCompletes ==
    /\ tracker = "initializing"
    /\ handsReady' = TRUE
    /\ tracker' = "warmup"
    /\ UNCHANGED <<multiHandLandmarks, indexFingerTip, currentMode, explosionTriggered,
                   explosionMidpoint, explosionTimer, gestureRecoveryTimer, previousMode,
                   motionIntensity, motionDX, motionDY, prevFingerPos, particles,
                   lastSend, sinceTrigger, burstsPending, modeDropped,
                   runBursts, sinceArm, frames>>

\* hands.initialize() or the warm-up send rejects: the async function ends
\* with the rejection and processHandTracking is never started.
initializeFails ==
    /\ tracker \in {"initializing", "warmup"}
    /\ tracker' = "failed"
    /\ UNCHANGED <<multiHandLandmarks, indexFingerTip, currentMode, explosionTriggered,
                   explosionMidpoint, explosionTimer, gestureRecoveryTimer, previousMode,
                   motionIntensity, motionDX, motionDY, prevFingerPos, particles,
                   handsReady, lastSend, sinceTrigger, burstsPending, modeDropped,
                   runBursts, sinceArm, frames>>

\* The warm-up send of line 94 delivers its results to the callback, then
\* line 99 starts processHandTracking.
warmUp(obs, b) ==
    /\ tracker = "warmup"
    /\ onHandsDetected(obs, b)
    /\ ~Raises(obs)
    /\ lastSend' = "delivered"
    /\ tracker' = "running"
    /\ UNCHANGED handsReady

\* ----------------------------------------------------------- motion signal

\* Mutant: the displacement itself, not mapped from [0, 20] to [0, 100].
MapDisplacementUnscaled(dsq) == ISqrt(dsq)

\* map(displacement, 0, 20, 0, 100) = 5 * displacement, of the squared
\* displacement dsq (INT = SUB, so SUB units of distance are INT units of
\* intensity).
MapDisplacement(dsq) == ISqrt(25 * dsq)

\* Mutant: no deadband.
PastDeadbandAlways(dsq) == TRUE

\* displacement > 0.1 pixel
PastDeadband(dsq) == 100 * dsq > SUB * SUB

\* The three results of calculateMotionFromHand and the stored position,
\* for fingertip tip (present) and stored position prev.
MotionFromHand(tip, prev, mi, mdx, mdy) ==
    LET dx == tip.x - prev.x
        dy == tip.y - prev.y
        dsq == dx * dx + dy * dy
    IN  IF prev.some
        THEN [intensity |-> constrain(MapDisplacement(dsq), 0, 100 * INT),
              dx |-> IF PastDeadband(dsq)
                     THEN constrain(TruncDiv((-dx) * DIR, 10 * SUB), -DIR, DIR)
                     ELSE mdx,
              dy |-> IF PastDeadband(dsq)
                     THEN constrain(TruncDiv(dy * DIR, 10 * SUB), -DIR, DIR)
                     ELSE mdy,
              prev |-> Pt(tip.x, tip.y)]
        ELSE [intensity |-> mi, dx |-> mdx, dy |-> mdy, prev |-> Pt(tip.x, tip.y)]

\* Lines 306-315 of draw: the motion signal and stored position after them.
MotionStep(tip, prev, mi, mdx, mdy) ==
    IF tip.some
    THEN MotionFromHand(tip, prev, mi, mdx, mdy)
    ELSE [intensity |-> 0, dx |-> 0, dy |-> 0, prev |-> prev]

\* --------------------------------------------------------- Particle.update

\* One axis of the pull of strength s along d at distance dist.
Along(d, dist, s) == TruncDiv(d * s, dist)

\* strength = min(8.0 / (1 + distSq * 0.0005), 5.0), in VEL units
RepelStrength(distSq) ==
    Min((8 * VEL * 2000 * SUB * SUB) \div (2000 * SUB * SUB + distSq), 5 * VEL)

\* strength = min(2.5 / (1 + dist * 0.02), 1.5), in VEL units
AttractStrength(dist) ==
    Min((25 * VEL * 5 * SUB) \div (50 * SUB + dist), (3 * VEL) \div 2)

\* strength = min(5.0 * timeFactor / (1 + dist * 0.01), 4.0), in VEL units
ExplosionStrength(dist, timer) ==
    Min((5 * VEL * timer * 100 * SUB) \div (EXPLOSION_DURATION * (100 * SUB + dist)),
        4 * VEL)

\* The velocity a force centred at c adds to a particle at (px, py):
\* away from c (sign = 1) or toward it (sign = -1).
RepelForce(px, py, c) ==
    LET dx == px - c.x
        dy == py - c.y
        distSq == dx * dx + dy * dy
        dist == ISqrt(distSq)
    IN  IF distSq < (300 * SUB) * (300 * SUB) /\ distSq > SUB * SUB
        THEN [x |-> Along(dx, dist, RepelStrength(distSq)),
              y |-> Along(dy, dist, RepelStrength(distSq))]
        ELSE [x |-> 0, y |-> 0]

AttractForce(px, py, c) ==
    LET dx == c.x - px
        dy == c.y - py
        distSq == dx * dx + dy * dy
        dist == ISqrt(distSq)
    IN  IF distSq < (300 * SUB) * (300 * SUB) /\ distSq > SUB * SUB
        THEN [x |-> Along(dx, dist, AttractStrength(dist)),
              y |-> Along(dy, dist, AttractStrength(dist))]
        ELSE [x |-> 0, y |-> 0]

ExplosionForce(px, py, c, timer) ==
    LET dx == px - c.x
        dy == py - c.y
        distSq == dx * dx + dy * dy
        dist == ISqrt(distSq)
    IN  IF distSq > SUB * SUB
        THEN [x |-> Along(dx, dist, ExplosionStrength(dist, timer)),
              y |-> Along(dy, dist, ExplosionStrength(dist, timer))]
        ELSE [x |-> 0, y |-> 0]

\* The explosion force is applied in a particle update (line 531).
ExplosionActive(mid, timer) == mid.some /\ timer > 0

\* The recovery force is applied in a particle update.
RecoveryActive(mode, timer) == mode = "none" /\ timer > 0

\* this.vx *= 0.95
Damp(v) == TruncDiv(v * 95, 100)

\* Mutant: no limit.
LimitVelocityNone(v) == v

\* constrain(this.vx, -8, 8)
LimitVelocity(v) == constrain(v, -8 * VEL, 8 * VEL)

\* Mutant: only the upper edge wraps.
WrapUpper(c, size) == IF c > size THEN 0 ELSE c

\* if (this.x < 0) this.x = width; if (this.x > width) this.x = 0;
Wrap(c, size) ==
    LET c1 == IF c < 0 THEN size ELSE c
    IN  IF c1 > size THEN 0 ELSE c1

\* Particle.update(intensity) of a followed particle, with the frame's
\* draws r.jx, r.jy (jitter) and r.rx, r.ry (recovery drift), reading the
\* globals as the frame's update pass sees them.
UpdateParticle(p, intensity, mdx, mdy, r) ==
    LET speed2000 == 1000 + 5 * intensity   \* speedMultiplier, in 1/2000
        vx1 == p.vx + TruncDiv(mdx * 7 * VEL, 10 * DIR)
        vy1 == p.vy + TruncDiv(mdy * 7 * VEL, 10 * DIR)
        x1 == p.x + TruncDiv(vx1 * p.baseSpeed * speed2000 * SUB, VEL * 4000)
        y1 == p.y + TruncDiv(vy1 * p.baseSpeed * speed2000 * SUB, VEL * 4000)
        hand == Pt(W - indexFingerTip.x, indexFingerTip.y)
        zero == [x |-> 0, y |-> 0]
        fr == IF currentMode = "repel" /\ indexFingerTip.some
              THEN RepelForce(x1, y1, hand) ELSE zero
        fa == IF currentMode = "attract" /\ indexFingerTip.some
              THEN AttractForce(x1, y1, hand) ELSE zero
        fe == IF ExplosionActive(explosionMidpoint, explosionTimer)
              THEN ExplosionForce(x1, y1, explosionMidpoint, explosionTimer) ELSE zero
        fc == IF RecoveryActive(currentMode, gestureRecoveryTimer)
              THEN [x |-> TruncDiv(r.rx * gestureRecoveryTimer, RECOVERY_DURATION),
                    y |-> TruncDiv(r.ry * gestureRecoveryTimer, RECOVERY_DURATION)]
              ELSE zero
        vx2 == vx1 + fr.x + fa.x + fe.x + fc.x + r.jx
        vy2 == vy1 + fr.y + fa.y + fe.y + fc.y + r.jy
    IN  [p EXCEPT !.age = p.age + 1,
                  !.vx = LimitVelocity(Damp(vx2)),
                  !.vy = LimitVelocity(Damp(vy2)),
                  !.x = Wrap(x1, W),
                  !.y = Wrap(y1, H)]

\* The update pass of draw over the pool.
UpdateAll(pool, intensity, mdx, mdy, r) ==
    [i \in 1..Len(pool) |->
        IF pool[i].trk THEN UpdateParticle(pool[i], intensity, mdx, mdy, r)
        ELSE pool[i]]

\* ------------------------------------------------------------------ draw

\* Mutant: the countdown does not stop at 0.
TickExplosionOn(timer) == timer - 1

\* if (explosionTimer > 0) explosionTimer--;
TickExplosion(timer) == IF timer > 0 THEN timer - 1 ELSE timer

\* Mutant: armed with the explosion's duration.
ArmValueExplosion == EXPLOSION_DURATION

\* Mutant: no edge, every frame in mode none arms.
ArmConditionAnyNone(prev, cur) == cur = "none"

\* The value the recovery timer is armed to.
ArmValue == RECOVERY_DURATION

\* previousMode !== "none" && currentMode === "none"
ArmCondition(prev, cur) == prev # "none" /\ cur = "none"

\* Mutant: count down first, then arm.
TickRecoveryArmLast(timer, prev, cur) ==
    IF ArmCondition(prev, cur) THEN ArmValue
    ELSE IF timer > 0 THEN timer - 1 ELSE timer

\* Lines 332-335: arm on the transition, then count down.
TickRecovery(timer, prev, cur) ==
    LET armed == IF ArmCondition(prev, cur) THEN ArmValue ELSE timer
    IN  IF armed > 0 THEN armed - 1 ELSE armed

\* Mutant: the oldest entries are dropped, the newest MAX_PARTICLES kept.
TrimFront(pool) ==
    IF Len(pool) > MAX_PARTICLES
    THEN SubSeq(pool, Len(pool) - MAX_PARTICLES + 1, Len(pool)) ELSE pool

\* Mutant: the excess is kept.
TrimNothing(pool) == pool

\* particles.length = MAX_PARTICLES when longer
Trim(pool) ==
    IF Len(pool) > MAX_PARTICLES THEN SubSeq(pool, 1, MAX_PARTICLES) ELSE pool

NearEdge(p) ==
    \/ p.x < 20 * SUB
    \/ p.x > W - 20 * SUB
    \/ p.y < 20 * SUB
    \/ p.y > H - 20 * SUB

\* One pass of the respawn loop: particle c.idx, when it is near an edge,
\* gets the position c.x in [50, width - 50), c.y in [50, height - 50) and
\* the velocity c.vx, c.vy in [-0.5, 0.5).
RespawnOne(pool, c) ==
    IF pool[c.idx].trk /\ NearEdge(pool[c.idx])
    THEN [pool EXCEPT ![c.idx] = [@ EXCEPT !.x = c.x, !.y = c.y,
                                           !.vx = c.vx, !.vy = c.vy]]
    ELSE pool

RECURSIVE RespawnLoop(_, _, _)
RespawnLoop(pool, cs, i) ==
    IF i > Min(respawnCount, Len(pool)) THEN pool
    ELSE RespawnLoop(RespawnOne(pool, cs[i]), cs, i + 1)

\* Mutant: trim and respawn in every mode.
CleanupAnyMode(pool, mode, cs) == RespawnLoop(Trim(pool), cs, 1)

\* Lines 339-358: trim and respawn when idle.
Cleanup(pool, mode, cs) ==
    IF mode = "none" THEN RespawnLoop(Trim(pool), cs, 1) ELSE pool

draw(r) ==
    LET m == MotionStep(indexFingerTip, prevFingerPos, motionIntensity, motionDX, motionDY)
    IN  /\ \A i \in 1..respawnCount :
              r.respawn[i].idx <= Min(Len(particles), MAX_PARTICLES)
        /\ motionIntensity' = m.intensity
        /\ motionDX' = m.dx
        /\ motionDY' = m.dy
        /\ prevFingerPos' = m.prev
        /\ particles' = Cleanup(UpdateAll(particles, m.intensity, m.dx, m.dy, r),
                                currentMode, r.respawn)
        /\ explosionTimer' = TickExplosion(explosionTimer)
        /\ explosionMidpoint' = IF explosionTimer > 0 /\ TickExplosion(explosionTimer) <= 0
                                THEN Null ELSE explosionMidpoint
        /\ gestureRecoveryTimer' = TickRecovery(gestureRecoveryTimer, previousMode, currentMode)
        /\ previousMode' = currentMode
        /\ sinceArm' = IF ArmCondition(previousMode, currentMode) THEN 0
                       ELSE IF currentMode = "none" /\ sinceArm >= 0
                       THEN Min(sinceArm + 1, RECOVERY_DURATION + 1)
                       ELSE -1
        /\ sinceTrigger' = IF sinceTrigger >= 0
                            THEN Min(sinceTrigger + 1, EXPLOSION_DURATION + 1)
                            ELSE -1
        /\ burstsPending' = IF currentMode = "none" THEN 0 ELSE burstsPending
        /\ modeDropped' = FALSE
        /\ frames' = Min(frames + 1, MaxFrames)
        /\ UNCHANGED <<multiHandLandmarks, indexFingerTip, currentMode,
                       explosionTriggered, handsReady, tracker, lastSend, runBursts>>

\* ----------------------------------------------------------------- setup

\* State after setup(): MAX_PARTICLES particles, the first one drawn as s.
SetupState(s) ==
    /\ multiHandLandmarks = <<>>
    /\ indexFingerTip = Null
    /\ currentMode = "none"
    /\ explosionTriggered = FALSE
    /\ explosionMidpoint = Null
    /\ explosionTimer = 0
    /\ gestureRecoveryTimer = 0
    /\ previousMode = "none"
    /\ motionIntensity = 0
    /\ motionDX = 0
    /\ motionDY = 0
    /\ prevFingerPos = Null
    /\ particles = [i \in 1..MAX_PARTICLES |->
                      IF i = 1 THEN Particle(i, s) ELSE Untracked("setup", i)]
    /\ lastSend = "none"
    /\ sinceTrigger = -1
    /\ burstsPending = 0
    /\ modeDropped = FALSE
    /\ runBursts = 0
    /\ sinceArm = -1
    /\ frames = 0

\* setup() has returned and the webcam callback has not yet called
\* initializeHandTracking.
TrackerPending == handsReady = FALSE /\ tracker = "setup"

\* initializeHandTracking has run to its end: processHandTracking sends
\* frames.
TrackerRunning == handsReady = TRUE /\ tracker = "running"

\* ---------------------------------------------------------------- inputs

\* A hand with palm centre (cx, cy): wrist below it, middle finger MCP above
\* it, the thumb, ring and pinky tips to the left of the centre and the
\* index and middle tips above it, at the given distances.
Hand(cx, cy, d4, d8, d12, d16, d20) ==
    [i \in LandmarkIdx |->
        CASE i = 0  -> [x |-> cx, y |-> cy + 200]
          [] i = 9  -> [x |-> cx, y |-> cy - 200]
          [] i = 4  -> [x |-> cx - d4, y |-> cy]
          [] i = 8  -> [x |-> cx, y |-> cy - d8]
          [] i = 12 -> [x |-> cx, y |-> cy - d12]
          [] i = 16 -> [x |-> cx - d16, y |-> cy]
          [] i = 20 -> [x |-> cx - d20, y |-> cy]]

\* All five fingertips at distance d from the palm centre, the index tip at
\* (tx, ty).
Shape(tx, ty, d) == Hand(tx, ty + d, d, d, d, d, d)

\* Index finger extended (0.3), the others curled (0.05), the index tip at
\* (tx, ty).
Pointing(tx, ty) == Hand(tx, ty + 1440, 240, 1440, 240, 240, 240)

NoHands == <<>>
OpenPalm == <<Shape(2400, 960, 1440)>>
Fist == <<Shape(2400, 960, 240)>>
PointingHand == <<Pointing(2400, 960)>>
PalmAtThreshold == <<Shape(2400, 960, 720)>>
FistAtThreshold == <<Shape(2400, 960, 576)>>
BetweenThresholds == <<Shape(2400, 960, 600)>>
TwoHandsFar == <<Shape(2400, 960, 1440), Shape(3360, 2160, 240)>>
TwoHandsWide == <<Shape(2400, 960, 1440), Shape(3840, 2160, 240)>>
TwoHandsNear == <<Shape(2400, 960, 1440), Shape(2640, 2160, 240)>>
TwoHandsAtThreshold == <<Shape(2400, 960, 1440), Shape(3120, 2160, 240)>>
TwoHandsAtEdge == <<Shape(4800, 1800, 240), Shape(4800, 3000, 240)>>

Observations ==
    {NoHands, OpenPalm, Fist, PointingHand, PalmAtThreshold, FistAtThreshold,
     BetweenThresholds, TwoHandsFar, TwoHandsWide, TwoHandsNear,
     TwoHandsAtThreshold}

NotFollowed == [trk |-> FALSE]

\* A frame's draws when no particle is followed.
PlainDraw ==
    [jx |-> 0, jy |-> 0, rx |-> 0, ry |-> 0,
     respawn |-> <<[idx |-> 1], [idx |-> MAX_PARTICLES]>>]

\* ------------------------------------------------------- specifications

\* Gestures, bursts and the pool size over a few frames.
Init == SetupState(NotFollowed) /\ TrackerRunning

Tracking == \E obs \in Observations : processHandTracking(obs, NotFollowed)

Frame == frames < MaxFrames /\ draw(PlainDraw)

Next == Tracking \/ Frame

Spec == Init /\ [][Next]_vars

\* The timers over long runs of frames: no hand, an open palm, two hands.
TimerObservations == {NoHands, OpenPalm, TwoHandsFar}

TrackingTimers == \E obs \in TimerObservations : processHandTracking(obs, NotFollowed)

FrameTimers == draw(PlainDraw)

NextTimers == TrackingTimers \/ FrameTimers

SpecTimers == Init /\ [][NextTimers]_vars

\* The motion signal: a pointing hand (mode none) whose index tip moves
\* between canvas points (100, 100), (110, 100), (100, 100.1), (104, 103)
\* and (320, 96), and no hand.
MotionObservations ==
    {NoHands, <<Pointing(750, 1000)>>, <<Pointing(825, 1000)>>,
     <<Pointing(750, 1001)>>, <<Pointing(780, 1030)>>, PointingHand}

TrackingMotion == \E obs \in MotionObservations : processHandTracking(obs, NotFollowed)

FrameMotion == draw(PlainDraw)

NextMotion == TrackingMotion \/ FrameMotion

SpecMotion == Init /\ [][NextMotion]_vars

\* Followed particles: the first setup particle and the first particle of
\* a burst, over a few frames.
ParticleObservations == {NoHands, OpenPalm, Fist, TwoHandsAtEdge}

\* Draws of setup's reset() for the followed particle.
SetupSamples ==
    {[trk |-> TRUE, x |-> 3000, y |-> 1000, vx |-> -100, vy |-> 99, baseSpeed |-> 3],
     [trk |-> TRUE, x |-> 0, y |-> 4799, vx |-> -100, vy |-> 99, baseSpeed |-> 1]}

\* Draws of a burst: offset in [-5, 5) pixels, speed in [3, 7).
BurstSamples ==
    {[trk |-> TRUE, ox |-> 49, oy |-> 0, vx |-> 699, vy |-> 0, baseSpeed |-> 3],
     [trk |-> TRUE, ox |-> -50, oy |-> 49, vx |-> -212, vy |-> -212, baseSpeed |-> 1]}

\* Draws of a frame: jitter in [-0.05, 0.05), recovery drift in
\* [-0.15, 0.15), and the two respawn passes.
DrawSamples ==
    {[jx |-> -5, jy |-> 4, rx |-> -15, ry |-> 14,
      respawn |-> <<[idx |-> 1, x |-> 500, y |-> 4299, vx |-> -50, vy |-> 49],
                    [idx |-> MAX_PARTICLES, x |-> 5899, y |-> 500, vx |-> 49, vy |-> -50]>>],
     [jx |-> 4, jy |-> -5, rx |-> 14, ry |-> -15,
      respawn |-> <<[idx |-> 2, x |-> 5899, y |-> 500, vx |-> 49, vy |-> -50],
                    [idx |-> 2, x |-> 500, y |-> 4299, vx |-> -50, vy |-> 49]>>]}

InitParticles == (\E s \in SetupSamples : SetupState(s)) /\ TrackerRunning

\* The burst draws matter only to an observation that can trigger one.
BurstDrawsFor(obs) == IF Len(obs) = 2 THEN BurstSamples ELSE {NotFollowed}

TrackingParticles ==
    \E obs \in ParticleObservations :
        \E b \in BurstDrawsFor(obs) : processHandTracking(obs, b)

FrameParticles == frames < MaxParticleFrames /\ \E r \in DrawSamples : draw(r)

NextParticles == TrackingParticles \/ FrameParticles

SpecParticles == InitParticles /\ [][NextParticles]_vars

\* Observations with hands of fewer than 21 landmarks: the first n of a
\* hand's landmarks.
Short(hand, n) == [i \in {j \in LandmarkIdx : j < n} |-> hand[i]]

MalformedObservations ==
    {NoHands, OpenPalm, TwoHandsFar,
     <<Short(Shape(2400, 960, 1440), 5)>>,
     <<Short(Shape(2400, 960, 1440), 9)>>,
     <<Short(Shape(2400, 960, 1440), 10)>>,
     <<Short(Pointing(2400, 960), 10)>>,
     <<Shape(2400, 960, 1440), Short(Shape(3360, 2160, 240), 0)>>,
     <<Shape(2400, 960, 1440), Short(Shape(3360, 2160, 240), 5)>>}

TrackingMalformed ==
    \E obs \in MalformedObservations : processHandTracking(obs, NotFollowed)

NextMalformed == TrackingMalformed \/ Frame

SpecMalformed == Init /\ [][NextMalformed]_vars

\* The tracker's life from setup on: initialization that succeeds, fails or
\* never completes, then rounds of processHandTracking that deliver an
\* observation or fail.
InitTracker == SetupState(NotFollowed) /\ TrackerPending

TrackerObservations == {NoHands, OpenPalm, TwoHandsFar}

WarmUpTracker == \E obs \in TrackerObservations : warmUp(obs, NotFollowed)

TrackingTracker == \E obs \in TrackerObservations : processHandTracking(obs, NotFollowed)

NextTracker ==
    \/ handsUndefined
    \/ initializeStarts
    \/ initializeCompletes
    \/ initializeFails
    \/ WarmUpTracker
    \/ TrackingTracker
    \/ sendFails
    \/ Frame

SpecTracker == InitTracker /\ [][NextTracker]_vars

\* ---------------------------------------------------------------- claims

\* Distance tests of the claims, on the doubled distance to the palm centre.
AllTips(landmarks, P(_)) == \A i \in fingertipIndices : P(PalmDist2Sq(landmarks, i))

Over15(d2sq) == d2sq > 1440 * 1440
AtLeast15(d2sq) == d2sq >= 1440 * 1440
Under12(d2sq) == d2sq < 1152 * 1152
AtMost12(d2sq) == d2sq <= 1152 * 1152

\* C1: over any sequence of tracking callbacks the burst fires exactly once
\* per maximal run of consecutive callbacks in which the two-hand condition
\* holds: while the last callback satisfied it the run has had exactly one
\* burst, however many callbacks the run has, and none otherwise.
C1_OncePerRun ==
    runBursts = IF TwoHandCondition(multiHandLandmarks) THEN 1 ELSE 0

\* A run of at least two callbacks (the midpoint is the first one's, the
\* stored observation a later one's) with its single burst.
C1_Witness ==
    /\ multiHandLandmarks = TwoHandsWide
    /\ explosionMidpoint = Pt(MidX(TwoHandsFar), MidY(TwoHandsFar))
    /\ runBursts = 1
    /\ Len(particles) = MAX_PARTICLES + spawnCount

\* C3: every explosion trigger (the latch rising) grows the pool by exactly
\* 40, and every draw frame whose cleanup runs with currentMode = none ends
\* with the pool at MAX_PARTICLES.
C3_BurstAndTrim ==
    [][/\ (~explosionTriggered /\ explosionTriggered')
            => Len(particles') = Len(particles) + 40
       /\ (Frame /\ currentMode = "none") => Len(particles') = 100]_vars

\* A frame in mode none has just trimmed a pool that a trigger had grown.
C3_Witness ==
    /\ Len(particles) = 100
    /\ explosionTimer = EXPLOSION_DURATION - 1
    /\ currentMode = "none"
    /\ frames = 1

\* C6 as claimed: with one hand, repel iff all five tips are strictly
\* farther than 0.15, attract iff all five are strictly nearer than 0.12,
\* none otherwise.
C6_Strict ==
    Len(multiHandLandmarks) = 1 =>
        /\ currentMode = "repel" <=> AllTips(multiHandLandmarks[1], Over15)
        /\ currentMode = "attract" <=> AllTips(multiHandLandmarks[1], Under12)
        /\ currentMode \in {"repel", "attract", "none"}

\* C6 amended: with one hand, repel iff all five tips are at distance 0.15
\* or more, attract iff all five are at distance 0.12 or less, none
\* otherwise.
C6_Inclusive ==
    Len(multiHandLandmarks) = 1 =>
        /\ currentMode = "repel" <=> AllTips(multiHandLandmarks[1], AtLeast15)
        /\ currentMode = "attract" <=> AllTips(multiHandLandmarks[1], AtMost12)
        /\ currentMode \in {"repel", "attract", "none"}

\* All five tips at exactly 0.15 classified as repel.
C6_Witness ==
    multiHandLandmarks = PalmAtThreshold /\ currentMode = "repel"

\* C7: an observation that is not one hand and fails the two-hand test (no
\* hands, or two hands with wrists 0.15 apart or nearer) yields mode none
\* and no burst, whatever the shapes of the hands.
C7_NoExplosionWhenNear ==
    (Len(multiHandLandmarks) # 1 /\ ~TwoHandCondition(multiHandLandmarks)) =>
        /\ currentMode = "none"
        /\ runBursts = 0
        /\ ~explosionTriggered

\* Two hands exactly 0.15 apart, the first an open palm, after a run that
\* did burst.
C7_Witness ==
    /\ multiHandLandmarks = TwoHandsAtThreshold
    /\ currentMode = "none"
    /\ Len(particles) = MAX_PARTICLES + spawnCount

\* The mode as a function of the observation alone.
C8_ModeOf(obs) ==
    IF TwoHandCondition(obs) THEN "explosion"
    ELSE IF Len(obs) # 1 THEN "none"
    ELSE IF AllTips(obs[1], AtLeast15) THEN "repel"
    ELSE IF AllTips(obs[1], AtMost12) THEN "attract"
    ELSE "none"

\* C8: currentMode is a function of the last observation alone: whatever
\* the history (previous mode, latch, timers, pool), it is C8_ModeOf of the
\* stored landmarks.
C8_ModeIsFunctionOfObservation ==
    currentMode = C8_ModeOf(multiHandLandmarks)

\* The same ambiguous hand seen in a history that came from an explosion
\* with a pending burst and a running timer.
C8_Witness ==
    /\ multiHandLandmarks = PointingHand
    /\ currentMode = "none"
    /\ previousMode = "explosion"
    /\ Len(particles) = MAX_PARTICLES + 2 * spawnCount
    /\ explosionTimer > 0

\* C2: a draw frame that sees previousMode # none and currentMode = none
\* arms the recovery timer to RECOVERY_DURATION = 120 (119 once the same
\* frame has ticked it); while the mode stays none the timer counts down,
\* so that 120 frames later it is 0 and the recovery force is applied to no
\* particle; the timer is never below 0 nor above 120.
C2_RecoveryCountdown ==
    /\ gestureRecoveryTimer >= 0
    /\ gestureRecoveryTimer <= 120
    /\ (sinceArm >= 0 /\ sinceArm < 120) => gestureRecoveryTimer = 120 - 1 - sinceArm
    /\ sinceArm >= 120 =>
          /\ gestureRecoveryTimer = 0
          /\ ~(currentMode = "none" /\ gestureRecoveryTimer > 0)

\* 120 frames in mode none after the frame that armed the timer.
C2_Witness ==
    /\ sinceArm = 120
    /\ gestureRecoveryTimer = 0
    /\ currentMode = "none"

\* The followed particles of the pool.
Followed == {particles[i] : i \in Tracked(particles)}

\* C4: every particle's velocity components stay within [-8, 8], whatever
\* the mode and the forces of the frame.
C4_VelocityBounded ==
    \A p \in Followed : p.vx >= -800 /\ p.vx <= 800 /\ p.vy >= -800 /\ p.vy <= 800

\* A burst particle pushed by the explosion force has been cut to 8.
C4_Witness ==
    \E p \in Followed : p.origin = "burst" /\ p.age = 1 /\ p.vx = 800

InCanvas(p) == p.x >= 0 /\ p.x <= 6400 /\ p.y >= 0 /\ p.y <= 4800

\* C5 as claimed: every particle is inside the canvas at all times, after
\* a tracking callback that spawns a burst too.
C5_AlwaysInCanvas == \A p \in Followed : InCanvas(p)

\* C5 amended: every particle that setup created or that an update has
\* been through is inside the canvas; a burst particle sits at most 5
\* pixels outside it until the next draw frame updates it.
C5_InCanvasOnceUpdated ==
    \A p \in Followed :
        \/ InCanvas(p)
        \/ /\ p.origin = "burst"
           /\ p.age = 0
           /\ p.x >= -50 /\ p.x <= 6450 /\ p.y >= -50 /\ p.y <= 4850

\* A burst particle spawned left of the canvas has been wrapped to the
\* right edge by its first update.
C5_Witness ==
    \E p \in Followed : p.origin = "burst" /\ p.age = 1 /\ p.x = 6400

\* C9 as claimed: a draw frame in which no hand is detected resets the
\* stored previous fingertip position to none.
C9_PrevResetOnHandLoss ==
    [][(FrameMotion /\ ~indexFingerTip.some) => ~prevFingerPos'.some]_vars

\* The squared displacement between fingertip and stored position, in SUB.
DispSq == (indexFingerTip.x - prevFingerPos.x) * (indexFingerTip.x - prevFingerPos.x)
          + (indexFingerTip.y - prevFingerPos.y) * (indexFingerTip.y - prevFingerPos.y)

MotionInRange ==
    /\ motionIntensity >= 0 /\ motionIntensity <= 1000
    /\ motionDX >= -100 /\ motionDX <= 100
    /\ motionDY >= -100 /\ motionDY <= 100

\* C10: a draw frame with a stored position and a fingertip more than 0.1
\* pixel from it sets intensity = clamp(5 * d, 0, 100) (to the 0.1 the
\* model keeps), directionX = clamp(-dx / 10, -1, 1) and directionY =
\* clamp(dy / 10, -1, 1); (100, 100) -> (110, 100) gives 50, -1 and 0; and
\* the three values stay in [0, 100], [-1, 1] and [-1, 1].
C10_MotionSignal ==
    /\ MotionInRange
    /\ [][/\ MotionInRange'
          /\ (FrameMotion /\ indexFingerTip.some /\ prevFingerPos.some /\ DispSq > 1) =>
                /\ IF 25 * DispSq >= 1000 * 1000
                   THEN motionIntensity' = 1000
                   ELSE /\ motionIntensity' * motionIntensity' <= 25 * DispSq
                        /\ (motionIntensity' + 1) * (motionIntensity' + 1) > 25 * DispSq
                /\ motionDX' = constrain(-(indexFingerTip.x - prevFingerPos.x), -100, 100)
                /\ motionDY' = constrain(indexFingerTip.y - prevFingerPos.y, -100, 100)
          /\ (FrameMotion /\ indexFingerTip = Pt(1100, 1000) /\ prevFingerPos = Pt(1000, 1000)) =>
                motionIntensity' = 500 /\ motionDX' = -100 /\ motionDY' = 0]_vars

\* The frame after the fingertip went from (100, 100) to (110, 100).
C10_Witness ==
    /\ prevFingerPos = Pt(1100, 1000)
    /\ motionIntensity = 500
    /\ motionDX = -100
    /\ motionDY = 0

\* A hand of the observation has fewer landmarks than the program reads.
Malformed(obs) == \E h \in 1..Len(obs) : DOMAIN obs[h] # LandmarkIdx

\* C11 as claimed: a callback that delivers a hand with fewer than 21
\* landmarks does not raise and is handled as no hand: afterwards the
\* fingertip is absent and the mode is none.
C11_MalformedIsNoHand ==
    Malformed(multiHandLandmarks) =>
        /\ lastSend # "raised"
        /\ ~indexFingerTip.some
        /\ currentMode = "none"

\* C12: while the tracker is not running (Hands undefined, initialization
\* pending, failed or never completing) the mode is none, the fingertip is
\* absent, no observation is stored, neither timer is armed, the pool has
\* MAX_PARTICLES particles and a draw frame can run; and a round whose
\* hands.send fails leaves mode, fingertip and stored observation as they
\* were.
C12_TrackerFailure ==
    /\ [](tracker # "running" =>
            /\ currentMode = "none"
            /\ ~indexFingerTip.some
            /\ multiHandLandmarks = <<>>
            /\ explosionTimer = 0
            /\ gestureRecoveryTimer = 0
            /\ Len(particles) = MAX_PARTICLES
            /\ ENABLED draw(PlainDraw))
    /\ [][sendFails => UNCHANGED <<currentMode, indexFingerTip, multiHandLandmarks>>]_vars

\* Draw frames have run after the initialization failed with handsReady
\* already set.
C12_Witness ==
    /\ tracker = "failed"
    /\ handsReady
    /\ frames >= 2

\* C13 as claimed: the particle collection is changed only by a draw
\* frame: no tracking callback changes its length or its contents.
C13_PoolChangedOnlyByDraw ==
    [][(particles' # particles => Frame) /\ (Tracking => particles' = particles)]_vars

\* C14 as claimed: every transition of the published mode from non-none to
\* none arms the recovery timer in the next draw frame, also when the
\* non-none value came and went between two draw frames, and when the mode
\* is non-none again before the next draw frame.
C14_EveryTransitionArms ==
    [][(Frame /\ modeDropped) => gestureRecoveryTimer' >= RECOVERY_DURATION - 1]_vars

\* C14 amended: a draw frame arms the recovery timer (leaving it at 119)
\* exactly when the previous draw frame saw a non-none mode and this one
\* sees none, however many callbacks ran in between; every such frame
\* follows a published transition from non-none to none, but a transition
\* whose non-none value no draw frame saw, or that is followed by a return
\* to non-none before the next draw frame, arms nothing.
C14_ArmsOnSampledTransition ==
    [][Frame =>
         /\ (gestureRecoveryTimer' = RECOVERY_DURATION - 1)
               <=> (previousMode # "none" /\ currentMode = "none")
         /\ (previousMode # "none" /\ currentMode = "none") => modeDropped
         /\ (modeDropped /\ (previousMode = "none" \/ currentMode # "none"))
               => gestureRecoveryTimer' = (IF gestureRecoveryTimer > 0
                                           THEN gestureRecoveryTimer - 1 ELSE 0)]_vars

\* A frame has run, then callbacks published repel and replaced it by none:
\* the next draw frame sees none after none.
C14_Witness ==
    /\ modeDropped
    /\ previousMode = "none"
    /\ currentMode = "none"
    /\ gestureRecoveryTimer = 0
    /\ frames >= 1

\* C15: the explosion midpoint is present exactly while explosionTimer > 0,
\* and 0 <= explosionTimer <= 60; n draw frames after the last trigger the
\* timer is 60 - n, so the explosion force is applied in exactly the 60
\* frames that start with the timer at 60 down to 1, and from the 60th
\* frame on the timer is 0 and the midpoint cleared, whatever the mode.
C15_ExplosionCountdown ==
    /\ explosionMidpoint.some <=> explosionTimer > 0
    /\ explosionTimer >= 0
    /\ explosionTimer <= 60
    /\ (sinceTrigger >= 0 /\ sinceTrigger <= 60) => explosionTimer = 60 - sinceTrigger
    /\ (sinceTrigger < 0 \/ sinceTrigger > 60) => explosionTimer = 0
    /\ ExplosionActive(explosionMidpoint, explosionTimer)
          <=> (sinceTrigger >= 0 /\ sinceTrigger < 60)

\* 60 frames after a trigger, the mode having gone to repel meanwhile.
C15_Witness ==
    /\ sinceTrigger = 60
    /\ explosionTimer = 0
    /\ ~explosionMidpoint.some
    /\ currentMode = "repel"

\* C16: the first MAX_PARTICLES entries of the pool are the particles setup
\* created, in their original order, and every entry after them is a burst
\* particle: bursts append, trimming cuts the tail, respawn rewrites in
\* place.
C16_SetupParticlesStay ==
    /\ Len(particles) >= MAX_PARTICLES
    /\ \A i \in 1..MAX_PARTICLES :
          particles[i].origin = "setup" /\ particles[i].k = i
    /\ \A i \in (MAX_PARTICLES + 1)..Len(particles) : particles[i].origin = "burst"

\* A burst has been appended and trimmed away by a frame in mode none whose
\* respawn rewrote the first setup particle.
C16_Witness ==
    /\ Len(particles) = MAX_PARTICLES
    /\ sinceTrigger = 1
    /\ particles[1].trk
    /\ particles[1].x = 500
    /\ particles[1].y = 4299

\* The position C17 claims for a particle after a frame: the forces of the
\* frame are added to the velocity at the particle's position, and the
\* position is then integrated with that velocity and wrapped.
C17_ForcesFirst(p, intensity, mdx, mdy, r) ==
    LET speed2000 == 1000 + 5 * intensity
        hand == Pt(W - indexFingerTip.x, indexFingerTip.y)
        zero == [x |-> 0, y |-> 0]
        fr == IF currentMode = "repel" /\ indexFingerTip.some
              THEN RepelForce(p.x, p.y, hand) ELSE zero
        fa == IF currentMode = "attract" /\ indexFingerTip.some
              THEN AttractForce(p.x, p.y, hand) ELSE zero
        fe == IF ExplosionActive(explosionMidpoint, explosionTimer)
              THEN ExplosionForce(p.x, p.y, explosionMidpoint, explosionTimer) ELSE zero
        fc == IF RecoveryActive(currentMode, gestureRecoveryTimer)
              THEN [x |-> TruncDiv(r.rx * gestureRecoveryTimer, RECOVERY_DURATION),
                    y |-> TruncDiv(r.ry * gestureRecoveryTimer, RECOVERY_DURATION)]
              ELSE zero
        vx == p.vx + TruncDiv(mdx * 7 * VEL, 10 * DIR) + fr.x + fa.x + fe.x + fc.x + r.jx
        vy == p.vy + TruncDiv(mdy * 7 * VEL, 10 * DIR) + fr.y + fa.y + fe.y + fc.y + r.jy
    IN  [x |-> Wrap(p.x + TruncDiv(vx * p.baseSpeed * speed2000 * SUB, VEL * 4000), W),
         y |-> Wrap(p.y + TruncDiv(vy * p.baseSpeed * speed2000 * SUB, VEL * 4000), H)]

\* C17 as claimed: in a particle update every force of the frame is added
\* to the velocity before the position is integrated with it: after a draw
\* frame in a gesture mode (no respawn) each followed particle is where the
\* forces-first order puts it, for one of the frame's random draws.
C17_ForcesBeforeIntegration ==
    [][FrameParticles =>
         \E r \in DrawSamples :
             \A i \in Tracked(particles) :
                 currentMode # "none" =>
                     /\ particles'[i].x
                          = C17_ForcesFirst(particles[i], motionIntensity', motionDX', motionDY', r).x
                     /\ particles'[i].y
                          = C17_ForcesFirst(particles[i], motionIntensity', motionDX', motionDY', r).y]_vars

\* C18: a draw frame with a hand whose fingertip is at most 0.1 pixel from
\* the stored position leaves motionDX and motionDY as they were, sets the
\* intensity from the displacement (0 or 0.5) and stores the fingertip; a
\* draw frame with a hand and no stored position leaves intensity and
\* directions as they were and stores the fingertip.
C18_DeadbandKeepsDirection ==
    [][(FrameMotion /\ indexFingerTip.some) =>
         /\ prevFingerPos' = Pt(indexFingerTip.x, indexFingerTip.y)
         /\ (prevFingerPos.some /\ DispSq <= 1) =>
               /\ motionDX' = motionDX
               /\ motionDY' = motionDY
               /\ motionIntensity' = 5 * DispSq
         /\ ~prevFingerPos.some =>
               /\ motionDX' = motionDX
               /\ motionDY' = motionDY
               /\ motionIntensity' = motionIntensity]_vars

\* The fingertip went from (110, 100) to (100, 100), then 0.1 pixel down:
\* the direction of the first move is kept, the intensity is the second's.
C18_Witness ==
    /\ prevFingerPos = Pt(1000, 1001)
    /\ motionDX = 100
    /\ motionDY = 0
    /\ motionIntensity = 5

\* C19 as claimed: the recovery force is applied only in a frame that has
\* mode none and a positive timer during the particle updates; it is not
\* applied in the frame that detects the transition; the timer the updates
\* see is at most 119; and the timer counts down by one per frame also
\* while a gesture mode is active.
C19_NotInDetectingFrame ==
    [][FrameTimers =>
         /\ (previousMode # "none" /\ currentMode = "none")
               => ~RecoveryActive(currentMode, gestureRecoveryTimer)
         /\ gestureRecoveryTimer <= RECOVERY_DURATION - 1
         /\ (currentMode # "none" /\ gestureRecoveryTimer > 0)
               => gestureRecoveryTimer' = gestureRecoveryTimer - 1]_vars

\* C19 amended: in the frame that detects the transition the updates see
\* the timer as earlier frames left it: 0 and no force after a first gesture,
\* but still positive (at most 118) when an earlier arming has not run out,
\* and then the force is applied in that frame too; the timer the updates
\* see is at most 119, the detecting frame leaves it at 119, and every
\* other frame counts a positive timer down by one, also while a gesture
\* mode is active.
C19_RecoveryForceFrames ==
    [][FrameTimers =>
         /\ gestureRecoveryTimer <= RECOVERY_DURATION - 1
         /\ IF previousMode # "none" /\ currentMode = "none"
            THEN /\ gestureRecoveryTimer <= RECOVERY_DURATION - 2
                 /\ RecoveryActive(currentMode, gestureRecoveryTimer)
                       <=> gestureRecoveryTimer > 0
                 /\ gestureRecoveryTimer' = RECOVERY_DURATION - 1
            ELSE gestureRecoveryTimer' = (IF gestureRecoveryTimer > 0
                                          THEN gestureRecoveryTimer - 1 ELSE 0)
         /\ RecoveryActive(currentMode, gestureRecoveryTimer)
               => (currentMode = "none" /\ gestureRecoveryTimer > 0)]_vars

\* A second transition to none is about to be detected one gesture frame
\* after the first arming: the timer is still 118.
C19_Witness ==
    /\ previousMode # "none"
    /\ currentMode = "none"
    /\ gestureRecoveryTimer = RECOVERY_DURATION - 2

\* C20: the pool has MAX_PARTICLES + 40 * k particles, k the number of
\* explosion triggers (the latch rising) since the last draw frame that ran
\* in mode none, so never fewer than MAX_PARTICLES; only a tracking
\* callback grows it, by 40; and a draw frame in a gesture mode leaves its
\* size alone.
C20_PoolSize ==
    /\ [](/\ Len(particles) = MAX_PARTICLES + 40 * burstsPending
          /\ Len(particles) >= MAX_PARTICLES)
    /\ [][/\ Len(particles') > Len(particles)
               => (Tracking /\ Len(particles') = Len(particles) + 40)
          /\ (Frame /\ currentMode # "none") => Len(particles') = Len(particles)
          /\ (Frame /\ currentMode = "none") => Len(particles') = MAX_PARTICLES]_vars

\* Two hands, a frame, an open palm, a frame, two hands again: two bursts
\* are in the pool and no frame has trimmed.
C20_Witness ==
    /\ burstsPending = 2
    /\ Len(particles) = MAX_PARTICLES + 2 * spawnCount
    /\ previousMode = "repel"
    /\ currentMode = "explosion"

\* C21 as claimed: after every tracking callback the fingertip is present
\* exactly when the stored observation has at least one hand, and is then
\* landmark 8 of its first hand scaled to the canvas; so mode repel or
\* attract implies exactly one stored hand and a fingertip, and mode
\* explosion implies exactly two stored hands and the latch set.
C21_TipIffHand ==
    /\ indexFingerTip.some <=> Len(multiHandLandmarks) > 0
    /\ indexFingerTip.some => indexFingerTip = FingerTipOf(multiHandLandmarks)
    /\ currentMode \in {"repel", "attract"} =>
          (Len(multiHandLandmarks) = 1 /\ indexFingerTip.some)
    /\ currentMode = "explosion" =>
          (Len(multiHandLandmarks) = 2 /\ explosionTriggered)

====
